---- MODULE Spec2Model ----
(***************************************************************************)
(* A model of bigml/association.py: the local Association object (items,   *)
(* rules) and its operations get_items, get_rules, rules_CSV, describe,    *)
(* summarize, together with the module function get_metric_string.         *)
(*                                                                         *)
(* Conventions of the encoding                                             *)
(*  - Python None is the empty sequence << >>, a given value v is <<v>>.   *)
(*  - A float is an integer number of 1e-5 units (0.8 is 80000).           *)
(*  - A metric value is a sequence: <<v>> is the scalar v, <<f, n>> is the *)
(*    Python list [f, n] (isinstance(value, list) is Len(value) = 2).      *)
(*  - An element of a Python list of mixed type is a record whose field t  *)
(*    is the Python type ("Item", "str", "int"), index an Item's index     *)
(*    and s a str's text.                                                  *)
(*  - A row slot holds either a list of indices [t |-> "list"] or a text   *)
(*    [t |-> "str"].                                                       *)
(*  - An operation's outcome is "ok" or the name of the exception raised.  *)
(***************************************************************************)
EXTENDS Integers, Sequences, FiniteSets, TLC

VARIABLES
  fields,   \* self.fields: field ID -> field name
  items,    \* self.items
  rules,    \* self.rules
  loaded,   \* fields, items and rules as they were right after construction
  pc,       \* where the caller is
  call,     \* the operation called last (or about to be called) and its arguments
  last      \* what that call returned, raised and wrote

vars == <<fields, items, rules, loaded, pc, call, last>>

(* ------------------------------ bounds -------------------------------- *)
MaxRules == 3
MaxSessionRules == 2
MaxLimit == 2

(* ----------------------------- constants ------------------------------ *)
ASSOCIATION_METRICS ==
  <<"lhs_cover", "support", "confidence", "leverage", "lift", "p_value">>

METRIC_LITERALS ==
  [confidence |-> "Confidence", support |-> "Support", leverage |-> "Leverage",
   lhs_cover |-> "Coverage", p_value |-> "p-value", lift |-> "Lift"]

INDENT == "    "

None == << >>

Some(v) == <<v>>

Min(a, b) == IF a <= b THEN a ELSE b

(* Body(value), with value computed once: a local variable of the code     *)
Let(value, Body(_)) == CHOOSE result \in {Body(v) : v \in {value}} : TRUE

(* ------------------------- the loaded resource ------------------------ *)
(* ModelFields: self.fields maps a field ID to its name; inverted_fields   *)
(* maps a name back to its ID.                                             *)
SingleField == [f0 |-> "fruit"]

TwoFields == [f0 |-> "fruit", f1 |-> "drink"]

inverted_fields(fs) == {fs[id] : id \in DOMAIN fs}

field_id_of(fs, name) == CHOOSE id \in DOMAIN fs : fs[id] = name

(* Item(index, item, fields): index, field_id, name, complement.           *)
ItemsOf(fs) ==
  << [index |-> 0, field_id |-> "f0", name |-> "a", complement |-> FALSE],
     [index |-> 1, field_id |-> "f0", name |-> "b", complement |-> FALSE],
     [index |-> 2, field_id |-> IF "f1" \in DOMAIN fs THEN "f1" ELSE "f0",
      name |-> "c", complement |-> TRUE] >>

(* Item.describe(): field name, operator, value.                           *)
item_describe(fs, item) ==
  fs[item.field_id] \o (IF item.complement THEN " != " ELSE " = ") \o item.name

(* AssociationRule(rule): the rules a resource may hold.  The first two    *)
(* mirror each other with identical metrics; the last two mirror each      *)
(* other, have scalar coverages and a negative leverage, and differ in the *)
(* fifth decimal of their confidence and in their consequent coverage.     *)
RulePool ==
  << [lhs |-> <<0>>, rhs |-> <<1>>,
      lhs_cover |-> <<12345, 50>>, rhs_cover |-> <<12345, 50>>,
      support |-> <<30000>>, confidence |-> <<80000>>, leverage |-> <<5000>>,
      lift |-> <<150000>>, p_value |-> <<100>>],
     [lhs |-> <<1>>, rhs |-> <<0>>,
      lhs_cover |-> <<12345, 50>>, rhs_cover |-> <<12345, 50>>,
      support |-> <<30000>>, confidence |-> <<80000>>, leverage |-> <<5000>>,
      lift |-> <<150000>>, p_value |-> <<100>>],
     [lhs |-> <<0, 1>>, rhs |-> <<2>>,
      lhs_cover |-> <<20000>>, rhs_cover |-> <<40000>>,
      support |-> <<30000>>, confidence |-> <<80004>>, leverage |-> <<-2000>>,
      lift |-> <<120000>>, p_value |-> <<3>>],
     [lhs |-> <<2>>, rhs |-> <<0, 1>>,
      lhs_cover |-> <<20000>>, rhs_cover |-> <<20000>>,
      support |-> <<30000>>, confidence |-> <<79996>>, leverage |-> <<-2000>>,
      lift |-> <<120000>>, p_value |-> <<3>>] >>

(* self.rules = [AssociationRule(rule) for rule in associations['rules']]: *)
(* the k-th stored rule carries the rule id k.                             *)
RECURSIVE RulesFrom(_, _)
RulesFrom(ps, k) ==
  IF k > Len(ps) THEN << >>
  ELSE <<[rule_id |-> k, lhs |-> RulePool[ps[k]].lhs,
          rhs |-> RulePool[ps[k]].rhs,
          lhs_cover |-> RulePool[ps[k]].lhs_cover,
          rhs_cover |-> RulePool[ps[k]].rhs_cover,
          support |-> RulePool[ps[k]].support,
          confidence |-> RulePool[ps[k]].confidence,
          leverage |-> RulePool[ps[k]].leverage,
          lift |-> RulePool[ps[k]].lift,
          p_value |-> RulePool[ps[k]].p_value]>> \o RulesFrom(ps, k + 1)

RulesOf(ps) == RulesFrom(ps, 1)

RuleLists ==
  UNION {{RulesOf(ps) : ps \in [1..n -> 1..Len(RulePool)]} : n \in 0..MaxRules}

(* AssociationRule.strength: the confidence of the rule.                   *)
rule_strength(rule) == rule.confidence

(* AssociationRule.to_CSV(): a fresh row whose slots 1 and 2 are the       *)
(* rule's lhs and rhs lists, followed by the metrics.                      *)
to_CSV(rule) ==
  [rule_id |-> rule.rule_id,
   lhs |-> [t |-> "list", v |-> rule.lhs, s |-> ""],
   rhs |-> [t |-> "list", v |-> rule.rhs, s |-> ""],
   lhs_cover |-> rule.lhs_cover, support |-> rule.support,
   confidence |-> rule.confidence, leverage |-> rule.leverage,
   lift |-> rule.lift, p_value |-> rule.p_value, rhs_cover |-> rule.rhs_cover]

(* Python 2 ordering of a metric value against a number: two numbers       *)
(* compare numerically, a list is greater than any number.                 *)
py_ge_number(value, n) == IF Len(value) = 2 THEN TRUE ELSE value[1] >= n

(* ------------------------------ get_items ----------------------------- *)
truthy(field) == field # None /\ field[1] # ""

(* the user-defined item predicates a caller may pass                      *)
item_filter(name, item) ==
  CASE name = "not_complement" -> ~item.complement
    [] OTHER -> TRUE

filter_function_set_item(filter_function, item) ==
  IF filter_function = None THEN TRUE ELSE item_filter(filter_function[1], item)

names_filter(names, item) ==
  IF names = None THEN TRUE
  ELSE \E i \in 1..Len(names[1]) :
         names[1][i].t = "str" /\ names[1][i].s = item.name

RECURSIVE items_loop(_, _, _, _, _, _)
items_loop(its, i, field, field_id, names, filter_function) ==
  IF i > Len(its) THEN [outcome |-> "ok", items |-> << >>]
  ELSE IF field # None /\ field_id = None
       THEN [outcome |-> "NameError", items |-> << >>]
       ELSE LET item == its[i]
                keep == /\ (field = None \/ item.field_id = field_id[1])
                        /\ names_filter(names, item)
                        /\ filter_function_set_item(filter_function, item)
            IN  Let(items_loop(its, i + 1, field, field_id, names,
                               filter_function),
                    LAMBDA rest :
                      IF rest.outcome # "ok" THEN rest
                      ELSE [outcome |-> "ok",
                            items |-> IF keep THEN <<item>> \o rest.items
                                      ELSE rest.items])

get_items(fs, its, field, names, filter_function) ==
  IF truthy(field) /\ field[1] \notin DOMAIN fs
                   /\ field[1] \notin inverted_fields(fs)
  THEN [outcome |-> "ValueError", items |-> << >>]
  ELSE LET field_id ==
             IF ~truthy(field) THEN None
             ELSE IF field[1] \in DOMAIN fs THEN Some(field[1])
             ELSE Some(field_id_of(fs, field[1]))
       IN  items_loop(its, 1, field, field_id, names, filter_function)

(* ------------------------------ get_rules ----------------------------- *)
leverage(min_leverage, rule) ==
  IF min_leverage = None THEN TRUE
  ELSE py_ge_number(rule.leverage, min_leverage[1])

strength(min_strength, rule) ==
  IF min_strength = None THEN TRUE
  ELSE py_ge_number(rule_strength(rule), min_strength[1])

support(min_support, rule) ==
  IF min_support = None THEN TRUE
  ELSE py_ge_number(rule.support, min_support[1])

p_value(min_p_value, rule) ==
  IF min_p_value = None THEN TRUE
  ELSE py_ge_number(rule.p_value, min_p_value[1])

(* the user-defined rule predicates a caller may pass                      *)
rule_filter(name, rule) ==
  CASE name = "single_lhs" -> Len(rule.lhs) = 1
    [] OTHER -> TRUE

filter_function_set(filter_function, rule) ==
  IF filter_function = None THEN TRUE ELSE rule_filter(filter_function[1], rule)

(* items = [item.index for item in item_list]: an Item gives its index, a  *)
(* str gives its bound method index (equal to no item index), any other    *)
(* element has no attribute index.                                         *)
item_indexes(item_list) ==
  {item_list[i].index : i \in {j \in 1..Len(item_list) : item_list[j].t = "Item"}}

(* items = [item.index for item in self.get_items(names=item_list)]        *)
name_indexes(fs, its, item_list) ==
  Let(get_items(fs, its, None, Some(item_list), None).items,
      LAMBDA got : {got[i].index : i \in 1..Len(got)})

(* [outcome, match]: the value of item_list_set(rule) or the exception     *)
item_list_set(fs, its, item_list, rule) ==
  IF item_list = None THEN [outcome |-> "ok", match |-> TRUE]
  ELSE IF Len(item_list[1]) = 0 THEN [outcome |-> "IndexError", match |-> FALSE]
  ELSE IF item_list[1][1].t \notin {"Item", "str"}
       THEN [outcome |-> "UnboundLocalError", match |-> FALSE]
  ELSE IF item_list[1][1].t = "Item"
          /\ \E i \in 1..Len(item_list[1]) :
                item_list[1][i].t \notin {"Item", "str"}
       THEN [outcome |-> "AttributeError", match |-> FALSE]
  ELSE Let(IF item_list[1][1].t = "Item" THEN item_indexes(item_list[1])
           ELSE name_indexes(fs, its, item_list[1]),
           LAMBDA found :
             [outcome |-> "ok",
              match |-> \/ \E i \in 1..Len(rule.lhs) : rule.lhs[i] \in found
                        \/ \E i \in 1..Len(rule.rhs) : rule.rhs[i] \in found])

RECURSIVE rules_loop(_, _, _, _, _)
rules_loop(fs, its, rs, i, args) ==
  IF i > Len(rs) THEN [outcome |-> "ok", rules |-> << >>]
  ELSE Let(item_list_set(fs, its, args.item_list, rs[i]),
           LAMBDA ils :
             IF ils.outcome # "ok"
             THEN [outcome |-> ils.outcome, rules |-> << >>]
             ELSE LET rule == rs[i]
                      keep == /\ leverage(args.min_leverage, rule)
                              /\ strength(args.min_strength, rule)
                              /\ support(args.min_support, rule)
                              /\ p_value(args.min_p_value, rule)
                              /\ ils.match
                              /\ filter_function_set(args.filter_function, rule)
                  IN  Let(rules_loop(fs, its, rs, i + 1, args),
                          LAMBDA rest :
                            IF rest.outcome # "ok" THEN rest
                            ELSE [outcome |-> "ok",
                                  rules |-> IF keep THEN <<rule>> \o rest.rules
                                            ELSE rest.rules]))

get_rules(fs, its, rs, args) == rules_loop(fs, its, rs, 1, args)

(* ------------------------------ describe ------------------------------ *)
RECURSIVE join_descriptions(_)
join_descriptions(ds) ==
  IF Len(ds) = 0 THEN ""
  ELSE IF Len(ds) = 1 THEN ds[1]
  ELSE ds[1] \o " & " \o join_descriptions(Tail(ds))

item_description(fs, item) ==
  IF Cardinality(DOMAIN fs) = 1 /\ ~item.complement THEN item.name
  ELSE item_describe(fs, item)

(* describe_slot, were it to pass over a slot that already holds a text    *)
describe_slot_text_kept(fs, its, slot) ==
  IF slot.t = "str" THEN [outcome |-> "ok", slot |-> slot, list |-> slot.v]
  ELSE [outcome |-> "ok", list |-> slot.v,
        slot |-> [t |-> "str", v |-> << >>,
                  s |-> join_descriptions(
                          [i \in 1..Len(slot.v) |->
                             item_description(fs, its[slot.v[i] + 1])])]]

(* describe_slot, were it to put the description into the list object the  *)
(* slot holds instead of rebinding the slot                                *)
describe_slot_in_place(fs, its, slot) ==
  IF slot.t = "str" THEN [outcome |-> "TypeError", slot |-> slot, list |-> slot.v]
  ELSE [outcome |-> "ok", list |-> << >>,
        slot |-> [t |-> "str", v |-> << >>,
                  s |-> join_descriptions(
                          [i \in 1..Len(slot.v) |->
                             item_description(fs, its[slot.v[i] + 1])])]]

(* one pass of the loop "for index in range(1, 3)" over a row slot:        *)
(* iterating a list yields item indices; iterating a text yields its       *)
(* characters, and self.items[<character>] raises TypeError.  The          *)
(* assignment rule_row[index] = description rebinds the slot: the list     *)
(* object the slot held (field list) keeps its elements.                   *)
describe_slot(fs, its, slot) ==
  IF slot.t = "str"
  THEN IF slot.s = "" THEN [outcome |-> "ok", slot |-> slot, list |-> slot.v]
       ELSE [outcome |-> "TypeError", slot |-> slot, list |-> slot.v]
  ELSE IF \E i \in 1..Len(slot.v) : slot.v[i] \notin 0..(Len(its) - 1)
       THEN [outcome |-> "IndexError", slot |-> slot, list |-> slot.v]
       ELSE [outcome |-> "ok", list |-> slot.v,
             slot |-> [t |-> "str", v |-> << >>,
                       s |-> join_descriptions(
                               [i \in 1..Len(slot.v) |->
                                  item_description(fs, its[slot.v[i] + 1])])]]

(* [outcome, row, result, lhs_list, rhs_list]: row is the caller's row     *)
(* object after the call, result the returned row (the same object) when   *)
(* the call succeeds, lhs_list and rhs_list the list objects the row held  *)
(* in slots 1 and 2 on entry, as they are after the call.                  *)
describe(fs, its, rule_row) ==
  Let(describe_slot(fs, its, rule_row.lhs),
      LAMBDA first :
        IF first.outcome # "ok"
        THEN [outcome |-> first.outcome, row |-> rule_row, result |-> rule_row,
              lhs_list |-> first.list, rhs_list |-> rule_row.rhs.v]
        ELSE Let(describe_slot(fs, its, rule_row.rhs),
                 LAMBDA second :
                   LET row1 == [rule_row EXCEPT !.lhs = first.slot]
                       row2 == [row1 EXCEPT !.rhs = second.slot]
                   IN  IF second.outcome # "ok"
                       THEN [outcome |-> second.outcome, row |-> row1,
                             result |-> row1, lhs_list |-> first.list,
                             rhs_list |-> second.list]
                       ELSE [outcome |-> "ok", row |-> row2, result |-> row2,
                             lhs_list |-> first.list,
                             rhs_list |-> second.list]))

(* rule.to_CSV() puts the rule's own lhs and rhs list objects in the row:  *)
(* the rule as it is after describe(rule.to_CSV()).                        *)
rule_after_describe(fs, its, rule) ==
  Let(describe(fs, its, to_CSV(rule)),
      LAMBDA d : [rule EXCEPT !.lhs = d.lhs_list, !.rhs = d.rhs_list])

(* self.rules after describe(rule.to_CSV()) ran for the rules with the     *)
(* given ids                                                               *)
RECURSIVE rules_after_describe(_, _, _, _)
rules_after_describe(fs, its, rs, ids) ==
  IF Len(rs) = 0 THEN << >>
  ELSE <<IF Head(rs).rule_id \in ids
         THEN rule_after_describe(fs, its, Head(rs)) ELSE Head(rs)>>
         \o rules_after_describe(fs, its, Tail(rs), ids)

(* -------------------------- get_metric_string ------------------------- *)
two_digits(n) == IF n < 10 THEN "0" \o ToString(n) ELSE ToString(n)

(* The float of the decimal x * 1e-5 (x > 0) is the double nearest to it:  *)
(* with 2^e <= x * 1e-5 < 2^(e+1), the multiple of 2^(e-52) nearest to it. *)
(* float_side tells where that double lies: 1 above the decimal, -1 below  *)
(* it, 0 on it.  It is decided by the remainder of x * 2^(52-e) modulo     *)
(* 100000 (the part of the decimal below the last bit of the mantissa,     *)
(* which is never exactly one half for a decimal of five places).          *)
RECURSIVE bit_length(_)
bit_length(n) == IF n = 0 THEN 0 ELSE 1 + bit_length(n \div 2)

RECURSIVE leading_zeros(_)
leading_zeros(x) == IF x >= 100000 THEN 0 ELSE 1 + leading_zeros(2 * x)

binary_exponent(x) ==
  IF x >= 100000 THEN bit_length(x \div 100000) - 1 ELSE 0 - leading_zeros(x)

(* a * b modulo 100000 for a, b < 100000, computed in parts                *)
mulmod(a, b) ==
  (((a * (b \div 1000)) % 100000) * 1000 + a * (b % 1000)) % 100000

RECURSIVE pow2mod(_)
pow2mod(s) == IF s < 16 THEN (2 ^ s) % 100000 ELSE mulmod(65536, pow2mod(s - 16))

float_side(x) ==
  Let(mulmod(x % 100000, pow2mod(52 - binary_exponent(x))),
      LAMBDA r : IF r = 0 THEN 0 ELSE IF 2 * r > 100000 THEN 1 ELSE -1)

(* round(x, 4) for x >= 0 in 1e-5 units, the result in 1e-4 units: the     *)
(* float is rounded, so a tie in the fifth decimal goes up when the float  *)
(* lies above the decimal and down when it lies below; a float that is     *)
(* exactly the tie rounds away from zero (round of Python 2).              *)
round4_abs(x) ==
  IF x % 10 # 5 THEN (x + 5) \div 10
  ELSE IF float_side(x) >= 0 THEN x \div 10 + 1 ELSE x \div 10

(* round(x, 4): rounding is symmetric about zero                           *)
round4(x) == IF x < 0 THEN 0 - round4_abs(0 - x) ELSE round4_abs(x)

(* "%.2f%%" % (round(x, 4) * 100); a negative x keeps its sign, also when  *)
(* it rounds to -0.0                                                       *)
percent(x) ==
  (IF x < 0 THEN "-" ELSE "")
    \o ToString(round4_abs(IF x < 0 THEN 0 - x ELSE x) \div 100) \o "."
    \o two_digits(round4_abs(IF x < 0 THEN 0 - x ELSE x) % 100) \o "%"

RECURSIVE strip_zeros(_, _)
strip_zeros(frac, width) ==
  IF width > 1 /\ frac % 10 = 0 THEN strip_zeros(frac \div 10, width - 1)
  ELSE [frac |-> frac, width |-> width]

RECURSIVE pad_zeros(_, _)
pad_zeros(n, width) ==
  IF width <= 1 THEN ToString(n)
  ELSE ToString(n \div (10 ^ (width - 1))) \o pad_zeros(n % (10 ^ (width - 1)), width - 1)

(* "%s" % x for a float x >= 0 given in 1e-5 units                         *)
float_str_abs(x) ==
  IF x = 0 THEN "0.0"
  ELSE IF x < 10 THEN ToString(x) \o "e-05"
  ELSE Let(strip_zeros(x % 100000, 5),
           LAMBDA f : ToString(x \div 100000) \o "."
                        \o pad_zeros(f.frac, f.width))

(* "%s" % x for a float x given in 1e-5 units                              *)
float_str(x) == IF x < 0 THEN "-" \o float_str_abs(0 - x) ELSE float_str_abs(x)

metric_key(metric, reverse) ==
  IF reverse /\ metric = "lhs_cover" THEN "rhs_cover" ELSE metric

(* metric_value_of, were the value read under metric_key                   *)
metric_value_of_key(rule, metric, reverse) == rule[metric_key(metric, reverse)]

(* metric_value = getattr(rule, metric)                                    *)
metric_value_of(rule, metric, reverse) == rule[metric]

metric_fragment(rule, metric, reverse) ==
  LET metric_value == metric_value_of(rule, metric, reverse)
  IN  IF Len(metric_value) = 2
      THEN METRIC_LITERALS[metric] \o "=" \o percent(metric_value[1])
             \o " (" \o ToString(metric_value[2]) \o ")"
      ELSE IF metric = "confidence"
      THEN METRIC_LITERALS[metric] \o "=" \o percent(metric_value[1])
      ELSE METRIC_LITERALS[metric] \o "=" \o float_str(metric_value[1])

RECURSIVE join_metrics(_, _, _)
join_metrics(rule, reverse, i) ==
  IF i = Len(ASSOCIATION_METRICS)
  THEN metric_fragment(rule, ASSOCIATION_METRICS[i], reverse)
  ELSE metric_fragment(rule, ASSOCIATION_METRICS[i], reverse) \o "; "
         \o join_metrics(rule, reverse, i + 1)

get_metric_string(rule, reverse) == join_metrics(rule, reverse, 1)

(* ------------------------------ summarize ----------------------------- *)
(* Python 2 ordering of two metric values: numbers numerically, lists      *)
(* lexicographically, a number below any list.                             *)
py_lt(a, b) ==
  IF Len(a) = 1 /\ Len(b) = 1 THEN a[1] < b[1]
  ELSE IF Len(a) = 2 /\ Len(b) = 2
       THEN a[1] < b[1] \/ (a[1] = b[1] /\ a[2] < b[2])
  ELSE Len(a) < Len(b)

(* insert_sorted, were a rule to go before the rules of equal key          *)
RECURSIVE insert_sorted_ties_first(_, _, _)
insert_sorted_ties_first(done, rule, metric) ==
  IF Len(done) = 0 THEN <<rule>>
  ELSE IF ~py_lt(rule[metric], Head(done)[metric]) THEN <<rule>> \o done
  ELSE <<Head(done)>> \o insert_sorted_ties_first(Tail(done), rule, metric)

(* the place of a rule in a descending stable order: after every rule      *)
(* whose key is not smaller                                                *)
RECURSIVE insert_sorted(_, _, _)
insert_sorted(done, rule, metric) ==
  IF Len(done) = 0 THEN <<rule>>
  ELSE IF py_lt(Head(done)[metric], rule[metric]) THEN <<rule>> \o done
  ELSE <<Head(done)>> \o insert_sorted(Tail(done), rule, metric)

(* sorted(rules, key=lambda x: getattr(x, metric), reverse=True)           *)
RECURSIVE sorted_reverse(_, _, _)
sorted_reverse(rs, metric, n) ==
  IF n = 0 THEN << >>
  ELSE Let(sorted_reverse(rs, metric, n - 1),
           LAMBDA done : insert_sorted(done, rs[n], metric))

top_rules_of(rs, metric, limit) ==
  SubSeq(sorted_reverse(rs, metric, Len(rs)), 1, Min(limit * 2, Len(rs)))

Max(S) == CHOOSE m \in S : \A x \in S : x <= m

(* the positions in top_rules of the rules that mirror the rule            *)
mirrors(top_rules, rule, metric_string) ==
  {j \in 1..Len(top_rules) :
     /\ rule.rhs = top_rules[j].lhs
     /\ rule.lhs = top_rules[j].rhs
     /\ metric_string = get_metric_string(top_rules[j], TRUE)}

rule_text(first, operator, second, metric_string) ==
  first \o " " \o operator \o " " \o second \o " [" \o metric_string \o "]"

(* line_of, were the reverse text built in the order of the line itself    *)
line_of_unswapped(fs, its, top_rules, i) ==
  Let(describe(fs, its, to_CSV(top_rules[i])), LAMBDA d :
  Let(get_metric_string(top_rules[i], FALSE), LAMBDA metric_string :
  Let(mirrors(top_rules, top_rules[i], metric_string), LAMBDA ms :
    LET rule == top_rules[i]
        operator == IF ms = {} THEN "->" ELSE "<->"
        second_id == IF ms = {} THEN None
                     ELSE Some(top_rules[Max(ms)].rule_id)
        rule_id_string ==
          IF ms = {} THEN "Rule " \o ToString(rule.rule_id) \o ": "
          ELSE "Rules " \o ToString(rule.rule_id) \o ", "
                 \o ToString(second_id[1]) \o ": "
        out_rule ==
          rule_text(d.row.lhs.s, operator, d.row.rhs.s, metric_string)
    IN  [outcome |-> d.outcome, rule_id |-> rule.rule_id,
         second_id |-> second_id, operator |-> operator,
         out_rule |-> out_rule,
         reverse_rule |->
           rule_text(d.row.lhs.s, operator, d.row.rhs.s, metric_string),
         text |-> INDENT \o INDENT \o rule_id_string \o out_rule])))

(* the line that would be emitted for top_rules[i]                         *)
line_of(fs, its, top_rules, i) ==
  Let(describe(fs, its, to_CSV(top_rules[i])), LAMBDA d :
  Let(get_metric_string(top_rules[i], FALSE), LAMBDA metric_string :
  Let(mirrors(top_rules, top_rules[i], metric_string), LAMBDA ms :
    LET rule == top_rules[i]
        operator == IF ms = {} THEN "->" ELSE "<->"
        second_id == IF ms = {} THEN None
                     ELSE Some(top_rules[Max(ms)].rule_id)
        rule_id_string ==
          IF ms = {} THEN "Rule " \o ToString(rule.rule_id) \o ": "
          ELSE "Rules " \o ToString(rule.rule_id) \o ", "
                 \o ToString(second_id[1]) \o ": "
        out_rule ==
          rule_text(d.row.lhs.s, operator, d.row.rhs.s, metric_string)
    IN  [outcome |-> d.outcome, rule_id |-> rule.rule_id,
         second_id |-> second_id, operator |-> operator,
         out_rule |-> out_rule,
         reverse_rule |->
           rule_text(d.row.rhs.s, operator, d.row.lhs.s, metric_string),
         text |-> INDENT \o INDENT \o rule_id_string \o out_rule])))

(* the loop "for index, rule in enumerate(top_rules)"; processed is the    *)
(* number of candidates the loop looked at when it ended                   *)
RECURSIVE section_loop(_, _, _, _, _, _, _, _)
section_loop(fs, its, top_rules, i, limit, out_rules, ref_rules, counter) ==
  IF i > Len(top_rules)
  THEN [outcome |-> "ok", lines |-> out_rules, processed |-> Len(top_rules)]
  ELSE Let(line_of(fs, its, top_rules, i), LAMBDA line :
         IF line.outcome # "ok"
         THEN [outcome |-> line.outcome, lines |-> out_rules, processed |-> i]
         ELSE IF line.operator = "->" \/ line.reverse_rule \notin ref_rules
         THEN IF counter + 1 > limit
              THEN [outcome |-> "ok", lines |-> Append(out_rules, line),
                    processed |-> i]
              ELSE section_loop(fs, its, top_rules, i + 1, limit,
                                Append(out_rules, line),
                                ref_rules \cup {line.out_rule}, counter + 1)
         ELSE section_loop(fs, its, top_rules, i + 1, limit, out_rules,
                           ref_rules, counter))

RECURSIVE join_lines(_)
join_lines(lines) ==
  IF Len(lines) = 0 THEN ""
  ELSE IF Len(lines) = 1 THEN lines[1].text
  ELSE lines[1].text \o "\n" \o join_lines(Tail(lines))

(* one pass of "for metric in ASSOCIATION_METRICS"                         *)
section_of(fs, its, rs, metric, limit) ==
  Let(top_rules_of(rs, metric, limit), LAMBDA top_rules :
  Let(section_loop(fs, its, top_rules, 1, limit, << >>, {}, 0), LAMBDA loop :
    [outcome |-> loop.outcome, metric |-> metric,
     header |-> "\n\nTop " \o ToString(limit) \o " by "
                  \o METRIC_LITERALS[metric] \o ":\n\n",
     top_rules |-> top_rules, lines |-> loop.lines,
     processed |-> loop.processed, body |-> join_lines(loop.lines)]))

(* the loop "for metric in ASSOCIATION_METRICS", up to a failing section   *)
RECURSIVE sections_loop(_, _, _, _, _)
sections_loop(fs, its, rs, limit, m) ==
  IF m > Len(ASSOCIATION_METRICS) THEN << >>
  ELSE Let(section_of(fs, its, rs, ASSOCIATION_METRICS[m], limit),
           LAMBDA section :
             IF section.outcome # "ok" THEN <<section>>
             ELSE <<section>> \o sections_loop(fs, its, rs, limit, m + 1))

(* what out.write received, section after section, up to a failing one     *)
RECURSIVE sections_out(_, _)
sections_out(sections, m) ==
  IF m > Len(sections) THEN <<"\n">>
  ELSE IF sections[m].outcome # "ok" THEN <<sections[m].header>>
  ELSE <<sections[m].header, sections[m].body>> \o sections_out(sections, m + 1)

(* [outcome, total, sections, out, described]: described holds the ids of  *)
(* the rules describe(rule.to_CSV()) ran for                               *)
summarize(fs, its, rs, limit, kwargs) ==
  Let(get_rules(fs, its, rs, kwargs), LAMBDA got :
    IF got.outcome # "ok"
    THEN [outcome |-> got.outcome, total |-> 0, sections |-> << >>,
          out |-> << >>, described |-> {}]
    ELSE Let(sections_loop(fs, its, got.rules, limit, 1), LAMBDA sections :
           [outcome |-> sections[Len(sections)].outcome,
            total |-> Len(got.rules), sections |-> sections,
            out |-> <<"Total number of rules: " \o ToString(Len(got.rules))
                        \o "\n">> \o sections_out(sections, 1),
            described |->
              UNION {{sections[m].top_rules[i].rule_id :
                        i \in 1..sections[m].processed} :
                     m \in 1..Len(sections)}]))

(* ------------------------------ rules_CSV ----------------------------- *)
RULE_HEADERS ==
  <<"Rule ID", "Antecedent", "Consequent", "Antecedent Coverage %",
    "Antecedent Coverage", "Support %", "Support", "Confidence",
    "Leverage", "Lift", "p-value", "Consequent Coverage %",
    "Consequent Coverage">>

(* rules = [self.describe(rule.to_CSV()) for rule in rules], up to a       *)
(* failing call                                                            *)
RECURSIVE describe_all(_, _, _, _)
describe_all(fs, its, rs, k) ==
  IF k > Len(rs) THEN << >>
  ELSE Let(describe(fs, its, to_CSV(rs[k])), LAMBDA d :
         IF d.outcome # "ok" THEN <<d>>
         ELSE <<d>> \o describe_all(fs, its, rs, k + 1))

RECURSIVE results_of(_)
results_of(ds) ==
  IF Len(ds) = 0 THEN << >> ELSE <<ds[1].result>> \o results_of(Tail(ds))

(* [outcome, header, rows, described]: header and rows are what the writer *)
(* received                                                                *)
rules_CSV(fs, its, rs, file_name, kwargs) ==
  Let(get_rules(fs, its, rs, kwargs), LAMBDA got :
    IF got.outcome # "ok"
    THEN [outcome |-> got.outcome, header |-> << >>, rows |-> << >>,
          described |-> {}]
    ELSE Let(describe_all(fs, its, got.rules, 1), LAMBDA ds :
           LET described == {got.rules[k].rule_id : k \in 1..Len(ds)}
           IN  IF Len(ds) > 0 /\ ds[Len(ds)].outcome # "ok"
               THEN [outcome |-> ds[Len(ds)].outcome, header |-> << >>,
                     rows |-> << >>, described |-> described]
               ELSE IF file_name = None
               THEN [outcome |-> "ValueError", header |-> << >>,
                     rows |-> << >>, described |-> described]
               ELSE [outcome |-> "ok", header |-> RULE_HEADERS,
                     rows |-> results_of(ds), described |-> described]))

(* ------------------------- the callers' inputs ------------------------ *)
ItemArg(i) == [t |-> "Item", index |-> i, s |-> ""]

StrArg(s) == [t |-> "str", index |-> -1, s |-> s]

IntArg(n) == [t |-> "int", index |-> n, s |-> ""]

ItemLists ==
  {None, Some(<< >>), Some(<<ItemArg(0)>>), Some(<<ItemArg(2), StrArg("a")>>),
   Some(<<StrArg("a")>>), Some(<<StrArg("c"), StrArg("zz")>>),
   Some(<<StrArg("zz")>>), Some(<<IntArg(42)>>)}

NoFilters ==
  [min_leverage |-> None, min_strength |-> None, min_support |-> None,
   min_p_value |-> None, item_list |-> None, filter_function |-> None]

Bounds ==
  {b \in [min_leverage : {None, Some(5000)}, min_strength : {None, Some(80000)},
          min_support : {None, Some(30001)}, min_p_value : {None, Some(100)}] :
     Cardinality({f \in DOMAIN b : b[f] # None}) \in {0, 1, 4}}

KwArgs ==
  {[min_leverage |-> b.min_leverage, min_strength |-> b.min_strength,
    min_support |-> b.min_support, min_p_value |-> b.min_p_value,
    item_list |-> l, filter_function |-> f] :
     b \in Bounds, l \in ItemLists, f \in {None, Some("single_lhs")}}

FewKwArgs ==
  {NoFilters, [NoFilters EXCEPT !.min_leverage = Some(5000)],
   [NoFilters EXCEPT !.item_list = Some(<< >>)]}

GetItemsCalls ==
  [op : {"get_items"},
   field : {None, Some(""), Some("f0"), Some("fruit"), Some("f1"),
            Some("drink"), Some("zz")},
   names : {None, Some(<<StrArg("a")>>), Some(<<StrArg("c"), StrArg("zz")>>)},
   filter_function : {None, Some("not_complement")}]

GetRulesCalls == [op : {"get_rules"}, kwargs : KwArgs]

DescribeCalls(rs) == [op : {"describe"}, k : 1..Len(rs)]

MetricStringCalls(rs) ==
  [op : {"get_metric_string"}, k : 1..Len(rs), reverse : BOOLEAN]

SummarizeCalls == [op : {"summarize"}, limit : 0..MaxLimit, kwargs : FewKwArgs]

RulesCSVCalls ==
  [op : {"rules_CSV"}, file_name : {None, Some("rules.csv")}, kwargs : FewKwArgs]

(* ------------------------------- actions ------------------------------ *)
GetItems(c) ==
  /\ c.op = "get_items"
  /\ \E r \in {get_items(fields, items, c.field, c.names, c.filter_function)} :
       last' = [op |-> "get_items", outcome |-> r.outcome, items |-> r.items]
  /\ call' = c
  /\ UNCHANGED <<fields, items, rules, loaded>>

GetRules(c) ==
  /\ c.op = "get_rules"
  /\ \E r \in {get_rules(fields, items, rules, c.kwargs)} :
       last' = [op |-> "get_rules", outcome |-> r.outcome, rules |-> r.rules]
  /\ call' = c
  /\ UNCHANGED <<fields, items, rules, loaded>>

(* row = rule.to_CSV(); self.describe(row): given is the row as handed     *)
(* over, row the caller's row object after the call, result what the call  *)
(* returned.                                                               *)
Describe(c) ==
  /\ c.op = "describe"
  /\ \E d \in {describe(fields, items, to_CSV(rules[c.k]))} :
       /\ last' = [op |-> "describe", again |-> FALSE, outcome |-> d.outcome,
                   given |-> to_CSV(rules[c.k]), row |-> d.row,
                   result |-> d.result]
       /\ rules' = rules_after_describe(fields, items, rules,
                                        {rules[c.k].rule_id})
  /\ call' = c
  /\ UNCHANGED <<fields, items, loaded>>

(* self.describe(row) once more, on the row object of the call before      *)
DescribeAgain ==
  /\ last.op = "describe" /\ ~last.again /\ last.outcome = "ok"
  /\ \E d \in {describe(fields, items, last.row)} :
       last' = [op |-> "describe", again |-> TRUE, outcome |-> d.outcome,
                given |-> last.row, row |-> d.row, result |-> d.result]
  /\ UNCHANGED <<fields, items, rules, loaded, call>>

GetMetricString(c) ==
  /\ c.op = "get_metric_string"
  /\ last' = [op |-> "get_metric_string", outcome |-> "ok",
              text |-> get_metric_string(rules[c.k], c.reverse)]
  /\ call' = c
  /\ UNCHANGED <<fields, items, rules, loaded>>

Summarize(c) ==
  /\ c.op = "summarize"
  /\ \E r \in {summarize(fields, items, rules, c.limit, c.kwargs)} :
       /\ last' = [op |-> "summarize", outcome |-> r.outcome,
                   total |-> r.total, sections |-> r.sections, out |-> r.out]
       /\ rules' = rules_after_describe(fields, items, rules, r.described)
  /\ call' = c
  /\ UNCHANGED <<fields, items, loaded>>

RulesCSV(c) ==
  /\ c.op = "rules_CSV"
  /\ \E r \in {rules_CSV(fields, items, rules, c.file_name, c.kwargs)} :
       /\ last' = [op |-> "rules_CSV", outcome |-> r.outcome,
                   header |-> r.header, rows |-> r.rows]
       /\ rules' = rules_after_describe(fields, items, rules, r.described)
  /\ call' = c
  /\ UNCHANGED <<fields, items, loaded>>

(* ------------------- one call on a loaded association ----------------- *)
Loaded(lists) ==
  /\ fields \in {SingleField, TwoFields}
  /\ items = ItemsOf(fields)
  /\ rules \in lists
  /\ loaded = [fields |-> fields, items |-> items, rules |-> rules]
  /\ last = [op |-> "none", outcome |-> "ok"]

Init ==
  /\ Loaded(RuleLists)
  /\ pc = "start"
  /\ \/ call \in GetItemsCalls
     \/ call \in GetRulesCalls
     \/ call \in DescribeCalls(rules)
     \/ call \in MetricStringCalls(rules)
     \/ call \in SummarizeCalls
     \/ call \in RulesCSVCalls

Next ==
  \/ pc = "start" /\ GetItems(call) /\ pc' = "done"
  \/ pc = "start" /\ GetRules(call) /\ pc' = "done"
  \/ pc = "start" /\ Describe(call) /\ pc' = "described"
  \/ pc = "described" /\ DescribeAgain /\ pc' = "done"
  \/ pc = "start" /\ GetMetricString(call) /\ pc' = "done"
  \/ pc = "start" /\ Summarize(call) /\ pc' = "done"
  \/ pc = "start" /\ RulesCSV(call) /\ pc' = "done"

Spec == Init /\ [][Next]_vars

(* ------------------ a session of calls, in any order ------------------ *)
SessionRuleLists == {rs \in RuleLists : Len(rs) <= MaxSessionRules}

SessionKwArgs ==
  {NoFilters, [NoFilters EXCEPT !.min_leverage = Some(5000)],
   [NoFilters EXCEPT !.item_list = Some(<<StrArg("c"), StrArg("zz")>>)]}

SessionInit ==
  /\ Loaded(SessionRuleLists)
  /\ pc = "session"
  /\ call = [op |-> "none"]

SessionNext ==
  \/ \E f \in {None, Some("fruit"), Some("zz")} :
       GetItems([op |-> "get_items", field |-> f, names |-> None,
                 filter_function |-> None]) /\ pc' = pc
  \/ \E kw \in SessionKwArgs :
       GetRules([op |-> "get_rules", kwargs |-> kw]) /\ pc' = pc
  \/ \E c \in DescribeCalls(rules) : Describe(c) /\ pc' = pc
  \/ DescribeAgain /\ pc' = pc
  \/ \E c \in MetricStringCalls(rules) : GetMetricString(c) /\ pc' = pc
  \/ Summarize([op |-> "summarize", limit |-> MaxLimit, kwargs |-> NoFilters])
       /\ pc' = pc
  \/ \E f \in {None, Some("rules.csv")} :
       RulesCSV([op |-> "rules_CSV", file_name |-> f, kwargs |-> NoFilters])
         /\ pc' = pc

SessionSpec == SessionInit /\ [][SessionNext]_vars

(* ===================== the claims about the program =================== *)
Range(seq) == {seq[i] : i \in 1..Len(seq)}

StrNames(item_list) == {e.s : e \in {x \in Range(item_list) : x.t = "str"}}

AllNames(item_list) ==
  Len(item_list) > 0 /\ \A e \in Range(item_list) : e.t = "str"

KnownNames == {it.name : it \in Range(items)}

(* the index set an item list stands for: the indices of its items and of  *)
(* the items its names name                                                *)
ResolvedIndexes(item_list) ==
  {e.index : e \in {x \in Range(item_list) : x.t = "Item"}}
    \cup {it.index : it \in {x \in Range(items) : x.name \in StrNames(item_list)}}

MeetsBounds(rule, kw) ==
  /\ kw.min_leverage = None \/ rule.leverage[1] >= kw.min_leverage[1]
  /\ kw.min_strength = None \/ rule.confidence[1] >= kw.min_strength[1]
  /\ kw.min_support = None \/ rule.support[1] >= kw.min_support[1]
  /\ kw.min_p_value = None \/ rule.p_value[1] >= kw.min_p_value[1]

Admitted(rule, kw) ==
  /\ MeetsBounds(rule, kw)
  /\ kw.item_list = None
       \/ (Range(rule.lhs) \cup Range(rule.rhs))
            \cap ResolvedIndexes(kw.item_list[1]) # {}
  /\ kw.filter_function = None \/ rule_filter(kw.filter_function[1], rule)

AdmittedRules(kw) == SelectSeq(rules, LAMBDA rule : Admitted(rule, kw))

(* C1: get_rules returns exactly the stored rules, in stored order, that   *)
(* meet every given lower bound, hold an item of the resolved item list    *)
(* when one is given, and pass the filter function when one is given.      *)
C1_ExactSubsequence ==
  (pc = "done" /\ last.op = "get_rules") =>
    (last.outcome = "ok" /\ last.rules = AdmittedRules(call.kwargs))

(* C2: an item list of names of which one or more name no item makes       *)
(* get_rules fail with the invalid-argument error (ValueError) and return  *)
(* no rule.                                                                *)
UnresolvedNameCall ==
  /\ pc = "done" /\ last.op = "get_rules"
  /\ call.kwargs.item_list # None
  /\ AllNames(call.kwargs.item_list[1])
  /\ StrNames(call.kwargs.item_list[1]) \ KnownNames # {}

C2_UnresolvedNamesRaise ==
  UnresolvedNameCall => (last.outcome = "ValueError" /\ last.rules = << >>)

(* ------------------------- claims about summarize --------------------- *)
SummarizeDone == pc = "done" /\ last.op = "summarize" /\ last.outcome = "ok"

Sections == IF SummarizeDone THEN Range(last.sections) ELSE {}

Positions(sec) == 1..Len(sec.top_rules)

(* two candidates mirror each other and have identical metrics             *)
IdenticalMirror(a, b) ==
  /\ a.lhs = b.rhs /\ a.rhs = b.lhs
  /\ \A m \in Range(ASSOCIATION_METRICS) : a[m] = b[m]

(* the pairs of candidates C3 is about, the first one reached by the loop  *)
MirrorPairs(sec) ==
  {p \in Positions(sec) \X Positions(sec) :
     /\ p[1] < p[2] /\ p[1] <= sec.processed
     /\ IdenticalMirror(sec.top_rules[p[1]], sec.top_rules[p[2]])}

LinesOf(sec, ids) == {n \in 1..Len(sec.lines) : sec.lines[n].rule_id \in ids}

(* exactly one line stands for the pair: it uses <-> and names both ids    *)
OneCombinedLine(sec, a, b) ==
  /\ Cardinality(LinesOf(sec, {a.rule_id, b.rule_id})) = 1
  /\ \A n \in LinesOf(sec, {a.rule_id, b.rule_id}) :
       /\ sec.lines[n].operator = "<->"
       /\ sec.lines[n].second_id # None
       /\ {sec.lines[n].rule_id, sec.lines[n].second_id[1]}
            = {a.rule_id, b.rule_id}

(* no other candidate has the antecedent and consequent of a or of b       *)
NoTwin(sec, p) ==
  \A k \in Positions(sec) \ {p[1], p[2]} :
    /\ ~(sec.top_rules[k].lhs = sec.top_rules[p[1]].lhs
           /\ sec.top_rules[k].rhs = sec.top_rules[p[1]].rhs)
    /\ ~(sec.top_rules[k].lhs = sec.top_rules[p[2]].lhs
           /\ sec.top_rules[k].rhs = sec.top_rules[p[2]].rhs)

(* C3 as stated: in every section, two candidates that mirror each other   *)
(* with identical metrics get exactly one line, with the connector <-> and *)
(* both rule ids, and no second line for the other direction.              *)
C3_PairsCollapse ==
  \A sec \in Sections : \A p \in MirrorPairs(sec) :
    OneCombinedLine(sec, sec.top_rules[p[1]], sec.top_rules[p[2]])

(* C3 as amended: the same, provided no other candidate of the section has *)
(* the same antecedent and consequent as one of the two rules (the line    *)
(* names the last candidate that mirrors the rule).                        *)
C3_PairsCollapseNoTwin ==
  \A sec \in Sections : \A p \in MirrorPairs(sec) :
    NoTwin(sec, p) =>
      OneCombinedLine(sec, sec.top_rules[p[1]], sec.top_rules[p[2]])

C3_Witness ==
  \E sec \in Sections : \E p \in MirrorPairs(sec) :
    /\ NoTwin(sec, p) /\ p[2] <= sec.processed
    /\ Len(sec.top_rules) >= 3
    /\ Len(sec.lines) >= 2

(* C4: no section holds more than limit rule lines.                        *)
C4_AtMostLimitLines ==
  \A sec \in Sections : Len(sec.lines) <= call.limit

(* the raw value of a ranks strictly before the one of b, or ranks equal   *)
(* and a is stored before b                                                *)
RanksBefore(a, b, metric) ==
  \/ py_lt(b[metric], a[metric])
  \/ (~py_lt(a[metric], b[metric]) /\ a.rule_id < b.rule_id)

PositionOf(sec, id) ==
  CHOOSE k \in Positions(sec) : sec.top_rules[k].rule_id = id

(* C9: the candidates of a section are the first 2*limit of the filtered   *)
(* rules in descending order of the metric, ties in stored order, and the  *)
(* lines of the section follow the order of the candidates.                *)
C9_CandidatesRanked ==
  \A sec \in Sections :
    LET filtered == get_rules(fields, items, rules, call.kwargs).rules
        top == sec.top_rules
    IN  /\ Len(top) = Min(2 * call.limit, Len(filtered))
        /\ Range(top) \subseteq Range(filtered)
        /\ \A i, j \in Positions(sec) :
             i < j => RanksBefore(top[i], top[j], sec.metric)
        /\ \A r \in Range(filtered) \ Range(top) : \A c \in Range(top) :
             RanksBefore(c, r, sec.metric)
        /\ \A n, k \in 1..Len(sec.lines) :
             n < k => PositionOf(sec, sec.lines[n].rule_id)
                        < PositionOf(sec, sec.lines[k].rule_id)

C9_Witness ==
  \E sec \in Sections :
    /\ Len(sec.lines) >= 2 /\ call.limit = 1 /\ last.total = 3
    /\ sec.top_rules[1][sec.metric] = sec.top_rules[2][sec.metric]
    /\ \E r \in Range(rules) :
         /\ r \notin Range(sec.top_rules)
         /\ r[sec.metric] = sec.top_rules[2][sec.metric]

(* the six fragments of a rule's own values: its antecedent coverage, its  *)
(* support, confidence, leverage, lift and p-value                         *)
OwnValue(label, value, percent_always) ==
  IF Len(value) = 2
  THEN label \o "=" \o percent(value[1]) \o " (" \o ToString(value[2]) \o ")"
  ELSE IF percent_always THEN label \o "=" \o percent(value[1])
  ELSE label \o "=" \o float_str(value[1])

OwnMetrics(rule) ==
  OwnValue("Coverage", rule.lhs_cover, FALSE) \o "; "
    \o OwnValue("Support", rule.support, FALSE) \o "; "
    \o OwnValue("Confidence", rule.confidence, TRUE) \o "; "
    \o OwnValue("Leverage", rule.leverage, FALSE) \o "; "
    \o OwnValue("Lift", rule.lift, FALSE) \o "; "
    \o OwnValue("p-value", rule.p_value, FALSE)

(* C10: with reverse set, get_metric_string still renders the rule's own   *)
(* six values, the coverage from lhs_cover; so a line of summarize is      *)
(* bidirectional exactly when a candidate with swapped antecedent and      *)
(* consequent has own values that render like those of the line's rule.    *)
C10_ReverseReadsOwnValues ==
  /\ (pc = "done" /\ last.op = "get_metric_string") =>
       last.text = OwnMetrics(rules[call.k])
  /\ \A sec \in Sections : \A n \in 1..Len(sec.lines) :
       LET rule == sec.top_rules[PositionOf(sec, sec.lines[n].rule_id)]
       IN  (sec.lines[n].operator = "<->") <=>
             \E c \in Range(sec.top_rules) :
               /\ c.lhs = rule.rhs /\ c.rhs = rule.lhs
               /\ OwnMetrics(c) = OwnMetrics(rule)

C10_Witness ==
  /\ pc = "done" /\ last.op = "get_metric_string" /\ call.reverse
  /\ rules[call.k].lhs_cover # rules[call.k].rhs_cover

(* ------------------------- claims about describe ---------------------- *)
DescribedTwice == pc = "done" /\ last.op = "describe" /\ last.again

(* the text of a list of item indices: the items' descriptions, joined     *)
TextOf(indexes) ==
  join_descriptions([i \in 1..Len(indexes) |->
                       item_description(fields, items[indexes[i] + 1])])

(* C5 as stated: a second describe on the same row succeeds and returns    *)
(* the antecedent and consequent text the first call returned.             *)
C5_SecondCallSameText ==
  DescribedTwice =>
    /\ last.outcome = "ok"
    /\ last.result.lhs.s = TextOf(rules[call.k].lhs)
    /\ last.result.rhs.s = TextOf(rules[call.k].rhs)

(* C5 as amended: describe writes the two texts into the row it is given   *)
(* and returns that row; a second describe on that row, which now holds a  *)
(* non-empty text, fails with a TypeError and leaves the texts of the      *)
(* first call in the row.                                                  *)
C5_RowOverwritten ==
  /\ (last.op = "describe" /\ ~last.again) =>
       /\ last.outcome = "ok"
       /\ last.row = last.result
       /\ last.row # last.given
       /\ last.row.lhs =
            [t |-> "str", v |-> << >>, s |-> TextOf(rules[call.k].lhs)]
       /\ last.row.rhs =
            [t |-> "str", v |-> << >>, s |-> TextOf(rules[call.k].rhs)]
  /\ DescribedTwice =>
       /\ last.given.lhs.s # ""
       /\ last.outcome = "TypeError"
       /\ last.row = last.given

C5_Witness ==
  /\ DescribedTwice /\ last.outcome = "TypeError"
  /\ Len(rules[call.k].lhs) = 2
  /\ last.row.lhs.s = TextOf(rules[call.k].lhs)

(* ------------------ claims about rules_CSV and get_items -------------- *)
(* C6: rules_CSV without a destination always ends in the                  *)
(* missing-destination error (ValueError) and writes nothing.              *)
C6_NoDestinationRaises ==
  (pc = "done" /\ last.op = "rules_CSV" /\ call.file_name = None) =>
    (last.outcome = "ValueError" /\ last.header = << >> /\ last.rows = << >>)

(* C7: get_items with a field argument other than None that is neither a   *)
(* known field ID nor a known field name fails with the unknown-field      *)
(* error (ValueError) and returns no item.                                 *)
C7_UnknownFieldRaises ==
  (/\ pc = "done" /\ last.op = "get_items"
   /\ call.field # None
   /\ call.field[1] \notin DOMAIN fields
   /\ call.field[1] \notin inverted_fields(fields)) =>
    (last.outcome = "ValueError" /\ last.items = << >>)

(* ----------------------- claims about a session ----------------------- *)
(* C8: after any sequence of calls the item list and the rule list are     *)
(* what they were right after construction, so get_items and get_rules     *)
(* return what the same call returns on the association as constructed.    *)
C8_ReadOnly ==
  /\ fields = loaded.fields /\ items = loaded.items /\ rules = loaded.rules
  /\ last.op = "get_rules" =>
       LET r == get_rules(loaded.fields, loaded.items, loaded.rules,
                          call.kwargs)
       IN  last.outcome = r.outcome /\ last.rules = r.rules
  /\ last.op = "get_items" =>
       LET r == get_items(loaded.fields, loaded.items, call.field, call.names,
                          call.filter_function)
       IN  last.outcome = r.outcome /\ last.items = r.items

C8_Witness ==
  /\ pc = "session" /\ last.op = "describe" /\ last.again
  /\ last.outcome = "TypeError"
  /\ Len(rules) = MaxSessionRules /\ rules = loaded.rules

====
